---- MODULE Spec2Model ----
(***************************************************************************)
(* A model of pyrodigy: the preset store (config/*_config.py), the         *)
(* configuration resolver (config/config_utils.py), the optimizer wrapper  *)
(* (pyrodigy/optimizer_wrapper.py), the history file (pyrodigy/cli.py) and *)
(* the enhanced AdaBelief engine (safe_optimizer/adabelief_plus.py).       *)
(*                                                                         *)
(* Python dictionaries are functions from keys (strings) to values.        *)
(* Floating point numbers are fixed-point integers: a hyperparameter x is  *)
(* the integer x * Scale, except learning rates, which are kept in units   *)
(* of 1 / LrScale so that the presets' 1e-4 and 5e-5 stay distinct.        *)
(* A raised exception is a record [type, about, cause].                    *)
(***************************************************************************)
EXTENDS Integers, Sequences, FiniteSets, TLC

VARIABLES
    store,          \* config.<name>_config.use_case_configs, the live module dicts
    safe_optimizer, \* what the import of safe_optimizer.<name>_plus finds
    registry,       \* pytorch_optimizer's registry, as load_optimizer answers
    history,        \* history/<name>_history.json: a list of entries, or corrupt
    wrapper,        \* the OptimizerWrapper the last successful construction returned
    engine,         \* the adabelief_plus instance held by the wrapper: groups, state
    tensors,        \* the model's parameters: their values and stored gradients
    last,           \* the last call: its arguments and what it returned or raised
    calls,          \* how many calls have been made (bounded)
    config_files,   \* config/<name>_config.py as the CLI reads and writes them
    now,            \* datetime.utcnow(), in days
    procs           \* processes inside record_history: what each has loaded

vars == <<store, safe_optimizer, registry, history, wrapper, engine, tensors, last, calls,
          config_files, now, procs>>

\* ------------------------------------------------------------------ bounds

MaxCalls == 2
NumParams == 2
MaxEngineCalls == 3
MaxCliCalls == 3
MaxHistoryCalls == 4
MaxDays == 3
NumProcs == 2

\* ------------------------------------------------------------ fixed point

Scale == 100 * 100
LrScale == 10 * Scale

Empty == [k \in {} |-> 0]

\* dict.update(other): other's entries overwrite and extend
DictUpdate(d, other) ==
    [k \in DOMAIN d \cup DOMAIN other |-> IF k \in DOMAIN other THEN other[k] ELSE d[k]]

\* dict.pop(key, None)
DictPop(d, key) == [k \in DOMAIN d \ {key} |-> d[k]]

\* dict.get(key, default)
DictGet(d, key, default) == IF key \in DOMAIN d THEN d[key] ELSE default

\* --------------------------------------------------------- the preset store

adabelief_config ==
    [ low_memory |->
        [ optimizer |-> "AdaBelief", lr |-> 10, betas |-> <<9000, 9990>>, eps |-> 1,
          weight_decay |-> 100, weight_decouple |-> TRUE, rectify |-> FALSE,
          ams_bound |-> FALSE, adanorm |-> FALSE ],
      consumer |->
        [ optimizer |-> "AdaBelief", lr |-> 10, betas |-> <<9000, 9990>>, eps |-> 1,
          weight_decay |-> 100, weight_decouple |-> TRUE, rectify |-> TRUE,
          ams_bound |-> FALSE, adanorm |-> FALSE ],
      high_memory |->
        [ optimizer |-> "AdaBelief", lr |-> 5, betas |-> <<9000, 9990>>, eps |-> 1,
          weight_decay |-> 100, weight_decouple |-> TRUE, rectify |-> TRUE,
          ams_bound |-> TRUE, adanorm |-> TRUE, r |-> 9500 ] ]

a2grad_config ==
    [ low_memory |-> [ optimizer |-> "a2grad", beta |-> 100000, lips |-> 100000, variant |-> "uni" ],
      consumer |-> [ optimizer |-> "a2grad", beta |-> 50000, lips |-> 50000, variant |-> "inc" ],
      high_memory |->
        [ optimizer |-> "a2grad", beta |-> 50000, lips |-> 10000, rho |-> 9000, variant |-> "exp" ] ]

\* the config modules that exist, by the optimizer name in their file name
PresetStore == [ adabelief |-> adabelief_config, a2grad |-> a2grad_config ]

\* ------------------------------------------------------------------ inputs

\* optimizer identifiers a caller passes
OptimizerNames == {"adabelief", "AdaBelief", "a2grad", "unknown"}

\* preset labels a caller passes ("flux_high" is in no store)
ConfigNames == {"low_memory", "high_memory", "flux_high"}

\* explicit learning rates (0.001, the default, and 0.01), in units of 1 / LrScale
LearningRates == {100, 1000}

\* **kwargs of the wrapper constructor. "lr" is a named parameter of
\* OptimizerWrapper.__init__, so Python never binds it into kwargs.
OverrideKwargs == {Empty, [weight_decouple |-> FALSE]}

\* the params argument: the model's parameters, an empty list, or a bare tensor
ParamsArgs == {"parameters", "empty_list", "tensor"}

\* str.lower() on the identifiers above
Lower(s) == CASE s = "AdaBelief" -> "adabelief" [] OTHER -> s

\* ------------------------------------------------------------- exceptions

NoExc == [type |-> "None", about |-> "", cause |-> "None"]

Exc(type, about, cause) == [type |-> type, about |-> about, cause |-> cause]

\* ------------------------------------------------- configuration resolver

NoRef == [optimizer |-> "", label |-> ""]

\* what get_config returns for a string optimizer: the store's own dict object
\* (a reference, not a copy), None when the label is absent, or a ValueError
\* when config.<optimizer>_config cannot be imported
get_config(optimizer, config_name) ==
    IF optimizer \notin DOMAIN store
    THEN [outcome |-> "raise", exc |-> Exc("ValueError", optimizer, "ModuleNotFoundError"),
          kind |-> "None", ref |-> NoRef]
    ELSE IF config_name \in DOMAIN store[optimizer]
    THEN [outcome |-> "return", exc |-> NoExc, kind |-> "dict",
          ref |-> [optimizer |-> optimizer, label |-> config_name]]
    ELSE [outcome |-> "return", exc |-> NoExc, kind |-> "None", ref |-> NoRef]

\* load_config: get_config's result; its two except clauses match neither the
\* ValueError get_config raises nor a returned None
load_config(optimizer_name, config_name) ==
    LET r == get_config(optimizer_name, config_name)
    IN  IF r.outcome = "raise" /\ r.exc.type \in {"ModuleNotFoundError", "AttributeError"}
        THEN [r EXCEPT !.exc = Exc("ValueError",
                 IF r.exc.type = "AttributeError" THEN config_name ELSE optimizer_name, "None")]
        ELSE r

\* --------------------------------------------------- implementation classes

NoClass == [name |-> "None", init_params |-> {}, co_varnames |-> {}, var_kw |-> FALSE]

\* safe_optimizer.adabelief_plus.adabelief_plus: the parameters of __init__,
\* and its co_varnames (the parameters and the local variable "defaults")
adabelief_plus_params ==
    {"self", "params", "lr", "betas", "weight_decay", "weight_decouple", "fixed_decay",
     "rectify", "n_sma_threshold", "degenerated_to_sgd", "ams_bound", "r", "adanorm",
     "adam_debias", "eps", "kwargs"}

adabelief_plus_class ==
    [name |-> "adabelief_plus", init_params |-> adabelief_plus_params,
     co_varnames |-> adabelief_plus_params \cup {"defaults"}, var_kw |-> TRUE]

\* the kinds of thing the import of safe_optimizer.<x>_plus can find
EnhancedKinds == {"missing", "nosymbol", "notclass", "class"}

\* classes the standard registry can hold: one whose constructor takes lr, one
\* that takes no lr, one that takes no lr but has a local variable named lr
StandardClass(name, shape) ==
    [name |-> name,
     init_params |-> {"self", "params", "kwargs"} \cup (IF shape = "lr_param" THEN {"lr"} ELSE {}),
     co_varnames |-> {"self", "params", "kwargs"} \cup (IF shape = "no_lr" THEN {} ELSE {"lr"}),
     var_kw |-> TRUE]

ClassShapes == {"lr_param", "no_lr", "lr_local"}

\* what load_optimizer raises for an identifier it does not know
LoadOptimizerErrors == {"ValueError", "NotImplementedError"}

NotFound(err) == [found |-> FALSE, class |-> NoClass, error |-> err]

Found(class) == [found |-> TRUE, class |-> class, error |-> "None"]

\* the registries the model starts from: lookup ignores case, as
\* pytorch_optimizer's load_optimizer does
Registries ==
    { [n \in OptimizerNames |->
         CASE Lower(n) = "adabelief" -> Found(StandardClass("AdaBelief", "lr_param"))
           [] Lower(n) = "a2grad" -> Found(StandardClass("A2Grad", shape))
           [] OTHER -> NotFound(err)]
      : shape \in ClassShapes, err \in LoadOptimizerErrors }

\* the safe_optimizer packages the model starts from: the repository ships
\* adabelief_plus alone; a deployment may lack it, or hold a module without
\* the symbol, or a symbol that is no class
SafeOptimizers == { [adabelief_plus |-> kind] : kind \in EnhancedKinds }

\* ----------------------------------------------- implementation resolver

Log(level, about) == [level |-> level, about |-> about]

\* one result shape for get_optimizer_class and its fallback: the class and
\* is_plus returned or the exception raised, the identifiers load_optimizer
\* was called with, and the log records emitted
Resolved(class, is_plus, consulted, logs) ==
    [outcome |-> "return", class |-> class, is_plus |-> is_plus, exc |-> NoExc,
     consulted |-> consulted, logs |-> logs]

ResolveRaised(exc, consulted, logs) ==
    [outcome |-> "raise", class |-> NoClass, is_plus |-> FALSE, exc |-> exc,
     consulted |-> consulted, logs |-> logs]

\* pytorch_optimizer.load_optimizer(optimizer=name)
load_optimizer(name) == registry[name]

\* the exception types the fallback's except clause catches
FallbackCaught == {"ValueError"}

\* a fallback that looks the lowercased identifier up instead of the
\* identifier as given
get_optimizer_class_fallback_Lowered(optimizer_name) ==
    LET entry == load_optimizer(Lower(optimizer_name))
    IN  IF entry.found
        THEN Resolved(entry.class, FALSE, <<Lower(optimizer_name)>>,
                      <<Log("DEBUG", "standard optimizer loaded")>>)
        ELSE IF entry.error \in FallbackCaught
        THEN ResolveRaised(Exc("ValueError", optimizer_name, entry.error),
                           <<Lower(optimizer_name)>>,
                           <<Log("ERROR", "optimizer not available")>>)
        ELSE ResolveRaised(Exc(entry.error, optimizer_name, "None"),
                           <<Lower(optimizer_name)>>, <<>>)

get_optimizer_class_fallback(optimizer_name) ==
    LET entry == load_optimizer(optimizer_name)
    IN  IF entry.found
        THEN Resolved(entry.class, FALSE, <<optimizer_name>>,
                      <<Log("DEBUG", "standard optimizer loaded")>>)
        ELSE IF entry.error \in FallbackCaught
        THEN ResolveRaised(Exc("ValueError", optimizer_name, entry.error), <<optimizer_name>>,
                           <<Log("ERROR", "optimizer not available")>>)
        ELSE ResolveRaised(Exc(entry.error, optimizer_name, "None"), <<optimizer_name>>, <<>>)

\* importlib.import_module("safe_optimizer." + custom name), then hasattr and
\* inspect.isclass on the symbol of the same name
ImportKind(custom_optimizer_name) ==
    IF custom_optimizer_name \in DOMAIN safe_optimizer
    THEN safe_optimizer[custom_optimizer_name]
    ELSE "missing"

\* the class a valid enhanced module defines
EnhancedClass(custom_optimizer_name) ==
    IF custom_optimizer_name = "adabelief_plus" THEN adabelief_plus_class ELSE NoClass

\* prepend the log records of the caller to a fallback's result
WithLogs(logs, r) == [r EXCEPT !.logs = logs \o r.logs]

\* an enhanced branch that asks the standard registry first and takes the
\* enhanced class only when the registry has none
EnhancedFound_RegistryFirst(optimizer_name, custom_optimizer_name) ==
    IF load_optimizer(optimizer_name).found
    THEN get_optimizer_class_fallback(optimizer_name)
    ELSE Resolved(EnhancedClass(custom_optimizer_name), TRUE, <<>>,
                  <<Log("DEBUG", "custom optimizer found")>>)

\* lines 175-179: the symbol is a class
EnhancedFound(optimizer_name, custom_optimizer_name) ==
    Resolved(EnhancedClass(custom_optimizer_name), TRUE, <<>>,
             <<Log("DEBUG", "custom optimizer found")>>)

\* a not-a-class branch whose TypeError the except clause catches too, so
\* that it falls back to the registry
EnhancedNotClass_FallsBack(optimizer_name, custom_optimizer_name) ==
    WithLogs(<<Log("ERROR", "is not a class")>>, get_optimizer_class_fallback(optimizer_name))

\* lines 180-186: the symbol is no class. The TypeError is raised inside the
\* try, and except ImportError lets it through.
EnhancedNotClass(optimizer_name, custom_optimizer_name) ==
    ResolveRaised(Exc("TypeError", custom_optimizer_name, "None"), <<>>,
                  <<Log("ERROR", "is not a class")>>)

get_optimizer_class(optimizer_name) ==
    LET custom_optimizer_name == Lower(optimizer_name) \o "_plus"
        kind == ImportKind(custom_optimizer_name)
    IN  CASE kind = "class" -> EnhancedFound(optimizer_name, custom_optimizer_name)
          [] kind = "notclass" -> EnhancedNotClass(optimizer_name, custom_optimizer_name)
          [] kind = "nosymbol" ->
               WithLogs(<<Log("DEBUG", "class not found in module")>>,
                        get_optimizer_class_fallback(optimizer_name))
          [] OTHER ->
               WithLogs(<<Log("ERROR", "error importing module")>>,
                        get_optimizer_class_fallback(optimizer_name))

\* ------------------------------------------------------------ construction

\* the lr of a constructor call made without one
NoLr == 0 - 1

\* the call the wrapper makes: optimizer_class(params, lr=lr, **config) when
\* "lr" is a parameter of the constructor, optimizer_class(params, **config)
\* otherwise
ConstructorCall(optimizer_class, params, lr, config) ==
    [class |-> optimizer_class.name, params |-> params,
     lr |-> IF "lr" \in optimizer_class.init_params THEN lr ELSE NoLr,
     config |-> config]

NoCall == [class |-> "None", params |-> "", lr |-> NoLr, config |-> Empty]

\* what the implementation's constructor raises ("None": it returns).
\* Python rejects a keyword the signature does not take (TypeError);
\* torch.optim.Optimizer.__init__ rejects a bare tensor (TypeError) and an
\* empty parameter list (ValueError).
ConstructorRaises(optimizer_class, call) ==
    CASE ~optimizer_class.var_kw /\ ~(DOMAIN call.config \subseteq optimizer_class.init_params)
            -> "TypeError"
      [] "lr" \in DOMAIN call.config /\ call.lr # NoLr -> "TypeError"
      [] call.params = "tensor" -> "TypeError"
      [] call.params = "empty_list" -> "ValueError"
      [] OTHER -> "None"

\* the exception types _initialize_optimizer catches and wraps
InitCaught == {"TypeError"}

\* _initialize_optimizer: the constructor call and the exception it ends with
\* (NoExc: the instance is returned)
initialize_optimizer(optimizer_class, params, lr, config) ==
    LET call == ConstructorCall(optimizer_class, params, lr, config)
        raised == ConstructorRaises(optimizer_class, call)
    IN  [call |-> call,
         exc |-> CASE raised = "None" -> NoExc
                   [] raised \in InitCaught -> Exc("ValueError", optimizer_class.name, raised)
                   [] OTHER -> Exc(raised, optimizer_class.name, "None"),
         logs |-> IF raised \in InitCaught
                  THEN <<Log("ERROR", "failed to initialize optimizer")>> ELSE <<>>]

\* ----------------------------------------------------------------- history

\* a history file: json.load fails on a corrupt one (JSONDecodeError)
HistoryFile(corrupt, entries) == [corrupt |-> corrupt, entries |-> entries]

\* datetime.isoformat() and datetime.fromisoformat(): the text of a time, and
\* the time of a text
IsoFormat(t) == [iso |-> t]

FromIsoFormat(text) == text.iso

\* load_history on the files hist: the entries, or the exception json.load
\* raises
LoadFrom(hist, optimizer_name) ==
    IF hist[optimizer_name].corrupt
    THEN [exc |-> Exc("JSONDecodeError", optimizer_name, "None"), entries |-> <<>>]
    ELSE [exc |-> NoExc, entries |-> hist[optimizer_name].entries]

load_history(optimizer_name) == LoadFrom(history, optimizer_name)

\* save_history: the file is rewritten with json.dump(history_data)
save_history(hist, optimizer_name, history_data) ==
    [hist EXCEPT ![optimizer_name] = HistoryFile(FALSE, history_data)]

\* lines 290-296: the entry record_history makes
HistoryEntry(optimizer_name, config_name, params) ==
    [timestamp |-> IsoFormat(now), optimizer_name |-> optimizer_name,
     config_name |-> config_name, params |-> params]

\* a record_history that appends the entry twice
record_history_Twice(optimizer_name, config_name, params) ==
    LET loaded == load_history(optimizer_name)
        entry == HistoryEntry(optimizer_name, config_name, params)
    IN  IF loaded.exc # NoExc
        THEN [exc |-> loaded.exc, history |-> history]
        ELSE [exc |-> NoExc,
              history |-> save_history(history, optimizer_name,
                                       Append(Append(loaded.entries, entry), entry))]

\* record_history: load, append one entry, save. Raises what load_history
\* raises, and then writes nothing.
record_history(optimizer_name, config_name, params) ==
    LET loaded == load_history(optimizer_name)
        entry == HistoryEntry(optimizer_name, config_name, params)
    IN  IF loaded.exc # NoExc
        THEN [exc |-> loaded.exc, history |-> history]
        ELSE [exc |-> NoExc,
              history |-> save_history(history, optimizer_name, Append(loaded.entries, entry))]

\* an entry a TTL filter drops when it is exactly as old as the TTL
Recent_Strict(entry, cutoff) == FromIsoFormat(entry.timestamp) > cutoff

\* the test of lines 343-347 and 374-378: the entry is no older than cutoff
Recent(entry, cutoff) == FromIsoFormat(entry.timestamp) >= cutoff

\* the list comprehension of the same lines
FilterByTtl(history_data, cutoff) == SelectSeq(history_data, LAMBDA entry : Recent(entry, cutoff))

\* show_history(optimizer_name, ttl): the entries it prints
show_history(hist, optimizer_name, ttl) ==
    LET loaded == LoadFrom(hist, optimizer_name)
    IN  [exc |-> loaded.exc, shown |-> FilterByTtl(loaded.entries, now - ttl)]

\* clear_history(optimizer_name): an empty list is saved, whatever the file held
clear_history(hist, optimizer_name) == save_history(hist, optimizer_name, <<>>)

\* apply_ttl(optimizer_name, ttl): load, filter, save
apply_ttl(hist, optimizer_name, ttl) ==
    LET loaded == LoadFrom(hist, optimizer_name)
    IN  IF loaded.exc # NoExc
        THEN [exc |-> loaded.exc, history |-> hist]
        ELSE [exc |-> NoExc,
              history |-> save_history(hist, optimizer_name,
                                       FilterByTtl(loaded.entries, now - ttl))]

\* a --TTL argument: a number and what follows it ("30d", "12h")
TtlArg(days, unit) == [days |-> days, unit |-> unit]

\* a main whose show action only displays, and whose clear action only clears
main_history_ShowOnly(hist, optimizer_name, action, TTL) ==
    IF TTL.unit # "d"
    THEN [exc |-> Exc("ValueError", "int", "None"), history |-> hist, shown |-> <<>>]
    ELSE IF action = "show"
    THEN LET shown == show_history(hist, optimizer_name, TTL.days)
         IN  [exc |-> shown.exc, history |-> hist, shown |-> shown.shown]
    ELSE [exc |-> NoExc, history |-> clear_history(hist, optimizer_name), shown |-> <<>>]

\* main, lines 476-482: int(args.TTL.rstrip("d")) days (ValueError when what
\* is left is no number), then show_history or clear_history, then apply_ttl
\* in either case
main_history(hist, optimizer_name, action, TTL) ==
    IF TTL.unit # "d"
    THEN [exc |-> Exc("ValueError", "int", "None"), history |-> hist, shown |-> <<>>]
    ELSE IF action = "show"
    THEN LET shown == show_history(hist, optimizer_name, TTL.days)
             pruned == apply_ttl(hist, optimizer_name, TTL.days)
         IN  IF shown.exc # NoExc
             THEN [exc |-> shown.exc, history |-> hist, shown |-> <<>>]
             ELSE [exc |-> pruned.exc, history |-> pruned.history, shown |-> shown.shown]
    ELSE LET pruned == apply_ttl(clear_history(hist, optimizer_name), optimizer_name, TTL.days)
         IN  [exc |-> pruned.exc, history |-> pruned.history, shown |-> <<>>]

\* a process outside record_history, and one that has loaded the history
Idle == [pc |-> "idle", optimizer_name |-> "", config_name |-> "", history_data |-> <<>>]

LoadedProc(optimizer_name, config_name, history_data) ==
    [pc |-> "loaded", optimizer_name |-> optimizer_name, config_name |-> config_name,
     history_data |-> history_data]

NoProcs == [p \in 1..NumProcs |-> Idle]

\* the params the wrapper records: {**config, "lr": lr} when "lr" is among the
\* constructor's co_varnames, the config otherwise
HistoryParams(optimizer_class, lr, config) ==
    IF "lr" \in optimizer_class.co_varnames
    THEN DictUpdate(config, [lr |-> lr])
    ELSE config

\* log_optimizer_details: what the summary shows, and the stream it is
\* written to: every line is a print(), so it goes to standard output and
\* never reaches the logger's sinks
Summary(optimizer_name, config_name, lr, config, is_plus, optimizer_class) ==
    [stream |-> "stdout",
     banner |-> TRUE,
     optimizer_name |-> optimizer_name,
     safe_version |-> is_plus,
     config_name |-> config_name,
     learning_rate |-> IF "lr" \in optimizer_class.co_varnames THEN lr ELSE NoLr,
     config |-> config]

NoSummary ==
    [stream |-> "none", banner |-> FALSE, optimizer_name |-> "", safe_version |-> FALSE, config_name |-> "",
     learning_rate |-> NoLr, config |-> Empty]

\* ------------------------------------------------------ fixed-point helpers

\* the float nan, which every operation on tensors hands on
NaN == 0 - 2 ^ 30

IsNaN(a) == a = NaN

Add(a, b) == IF IsNaN(a) \/ IsNaN(b) THEN NaN ELSE a + b

Sub(a, b) == IF IsNaN(a) \/ IsNaN(b) THEN NaN ELSE a - b

Mul(a, b) == IF IsNaN(a) \/ IsNaN(b) THEN NaN ELSE (a * b) \div Scale

\* a / b. The one divisor that can be zero is the norm of a gradient, and the
\* numerator is then zero as well: 0 / 0 is nan
Div(a, b) == IF IsNaN(a) \/ IsNaN(b) \/ b = 0 THEN NaN ELSE (a * Scale) \div b

Abs(a) == IF IsNaN(a) THEN NaN ELSE IF a < 0 THEN 0 - a ELSE a

\* torch.maximum hands nan on
Max(a, b) == IF IsNaN(a) \/ IsNaN(b) THEN NaN ELSE IF a >= b THEN a ELSE b

\* a > b on floats: false when either is nan
Greater(a, b) == ~IsNaN(a) /\ ~IsNaN(b) /\ a > b

RECURSIVE SqrtSearch(_, _, _)
\* the largest r in lo..hi with r * r <= n
SqrtSearch(n, lo, hi) ==
    IF lo >= hi THEN lo
    ELSE LET mid == (lo + hi + 1) \div 2
         IN  IF mid * mid <= n THEN SqrtSearch(n, mid, hi) ELSE SqrtSearch(n, lo, mid - 1)

\* math.sqrt / Tensor.sqrt on a fixed-point value
Sqrt(a) == IF IsNaN(a) THEN NaN ELSE SqrtSearch(a * Scale, 0, 4 * Scale)

RECURSIVE Pow(_, _)
\* beta ** step
Pow(beta, step) == IF step = 0 THEN Scale ELSE Mul(beta, Pow(beta, step - 1))

\* a learning rate (units of 1 / LrScale) as a fixed-point value
LrValue(lr) == (lr * Scale) \div LrScale

\* ------------------------------------------- the enhanced AdaBelief engine

\* adabelief_plus.__init__: the defaults of the one parameter group, from the
\* keyword arguments the wrapper passes; keywords the signature does not name
\* fall into **kwargs and are dropped
adabelief_plus_defaults(lr, config) ==
    LET adanorm == DictGet(config, "adanorm", FALSE)
        defaults ==
            [ lr |-> lr,
              betas |-> DictGet(config, "betas", <<9000, 9990>>),
              weight_decay |-> DictGet(config, "weight_decay", 0),
              weight_decouple |-> DictGet(config, "weight_decouple", TRUE),
              fixed_decay |-> DictGet(config, "fixed_decay", FALSE),
              rectify |-> DictGet(config, "rectify", FALSE),
              ams_bound |-> DictGet(config, "ams_bound", FALSE),
              adanorm |-> adanorm,
              adam_debias |-> DictGet(config, "adam_debias", FALSE),
              eps |-> DictGet(config, "eps", 1) ]
    IN  IF adanorm THEN DictUpdate(defaults, [r |-> DictGet(config, "r", 9500)]) ELSE defaults

\* the instance: torch.optim.Optimizer.__init__ makes one group holding every
\* parameter and the defaults, and an empty state per parameter
adabelief_plus_init(lr, config) ==
    [ alive |-> TRUE,
      n_sma_threshold |-> DictGet(config, "n_sma_threshold", 5),
      degenerated_to_sgd |-> DictGet(config, "degenerated_to_sgd", TRUE),
      param_groups |->
          << DictUpdate(adabelief_plus_defaults(lr, config),
                        [params |-> [i \in 1..NumParams |-> i]]) >>,
      state |-> [i \in 1..NumParams |-> Empty] ]

\* no adabelief_plus instance (no wrapper, or a wrapper around a standard class)
NoEngine ==
    [ alive |-> FALSE, n_sma_threshold |-> 0, degenerated_to_sgd |-> FALSE,
      param_groups |-> <<>>, state |-> [i \in 1..NumParams |-> Empty] ]

\* gradients: absent (None), dense with a value, or sparse
NoGrad == [kind |-> "none", val |-> 0]

Dense(v) == [kind |-> "dense", val |-> v]

SparseGrad(v) == [kind |-> "sparse", val |-> v]

\* a loss a step returns (None: not present)
NoLoss == [present |-> FALSE, loss |-> 0]

Loss(v) == [present |-> TRUE, loss |-> v]

\* a closure passed to step: when called it stores the gradients grads on the
\* parameters (its backward pass) and returns loss
NoClosure == [present |-> FALSE, loss |-> 0, grads |-> <<>>]

Closure(loss, grads) == [present |-> TRUE, loss |-> loss, grads |-> grads]

\* lines 85-88: loss = closure() when a closure is given, None otherwise
ClosureLoss(closure) == IF closure.present THEN Loss(closure.loss) ELSE NoLoss

\* the tensors after the closure ran
AfterClosure(tens, closure) ==
    IF closure.present
    THEN [i \in 1..NumParams |-> [tens[i] EXCEPT !.grad = closure.grads[i]]]
    ELSE tens

\* BaseOptimizer.debias: 1 - beta ** step
debias(beta, step) == Scale - Pow(beta, step)

\* BaseOptimizer.get_rectify_step_size: <<step_size, n_sma>>
get_rectify_step_size(is_rectify, step, lr, beta2, n_sma_threshold, degenerated_to_sgd) ==
    IF ~is_rectify THEN <<lr, 0>>
    ELSE LET n_sma_max == Div(2 * Scale, Scale - beta2) - Scale
             beta2_t == Pow(beta2, step)
             n_sma == n_sma_max - Div(2 * step * beta2_t, Scale - beta2_t)
             rt == IF n_sma >= n_sma_threshold * Scale
                   THEN Sqrt(Div(Mul(Div(Mul(Div(Mul(Scale - beta2_t, n_sma - 4 * Scale),
                                                 n_sma_max - 4 * Scale),
                                             n_sma - 2 * Scale), n_sma),
                                     n_sma_max), n_sma_max - 2 * Scale))
                   ELSE IF degenerated_to_sgd THEN Scale ELSE 0 - Scale
         IN  <<Mul(lr, rt), n_sma>>

\* BaseOptimizer.apply_adam_debias
apply_adam_debias(adam_debias, step_size, bias_correction1) ==
    IF adam_debias THEN step_size ELSE Div(step_size, bias_correction1)


\* apply_weight_decay: <<new tensor?, value of the returned p, the gradient after>>.
\* Decoupled decay returns a new tensor p * decay_factor; coupled decay adds
\* weight_decay * p into the stored gradient in place and returns p itself.
apply_weight_decay(p, grad, lr, weight_decay, weight_decouple, fixed_decay) ==
    IF weight_decouple
    THEN LET decay_factor == Scale - Mul(weight_decay, IF fixed_decay THEN Scale ELSE lr)
         IN  [fresh |-> TRUE, p |-> Mul(p, decay_factor), grad |-> grad]
    ELSE IF weight_decay > 0
    THEN [fresh |-> FALSE, p |-> p, grad |-> Add(grad, Mul(p, weight_decay))]
    ELSE [fresh |-> FALSE, p |-> p, grad |-> grad]

\* BaseOptimizer.get_adanorm_gradient: <<s_grad, exp_grad_norm after>>
get_adanorm_gradient(grad, adanorm, state, r) ==
    IF ~adanorm \/ "exp_grad_norm" \notin DOMAIN state
    THEN <<grad, 0>>
    ELSE LET grad_norm == Abs(grad)
             exp_grad_norm == Add(Mul(state["exp_grad_norm"], r), Mul(grad_norm, Scale - r))
         IN  <<IF Greater(exp_grad_norm, grad_norm)
               THEN Div(Mul(grad, exp_grad_norm), grad_norm) ELSE grad,
               exp_grad_norm>>

\* an AMS bound that stores the current second moment, not the maximum
apply_ams_bound_NoMax(ams_bound, exp_avg_sq, state, eps) ==
    IF ams_bound
    THEN <<Add(Sqrt(Add(exp_avg_sq, eps)), eps), exp_avg_sq>>
    ELSE <<Add(Sqrt(Add(exp_avg_sq, eps)), eps), 0>>

\* BaseOptimizer.apply_ams_bound: <<de_nom, max_exp_avg_var after>>
apply_ams_bound(ams_bound, exp_avg_sq, state, eps) ==
    IF ams_bound
    THEN LET max_exp_avg_sq == Max(state["max_exp_avg_var"], exp_avg_sq)
         IN  <<Add(Sqrt(Add(max_exp_avg_sq, eps)), eps), max_exp_avg_sq>>
    ELSE <<Add(Sqrt(Add(exp_avg_sq, eps)), eps), 0>>

\* lines 132-141: the state of a parameter seen for the first time
InitialState(group, st) ==
    IF st # Empty THEN st
    ELSE DictUpdate(DictUpdate([exp_avg |-> 0, exp_avg_var |-> 0],
                               IF group["adanorm"] THEN [exp_grad_norm |-> 0] ELSE Empty),
                    IF group["ams_bound"] THEN [max_exp_avg_var |-> 0] ELSE Empty)

\* the value the updated tensor ends with (lines 179-185), and whether an
\* in-place update was made at all
ParameterUpdate(group, p, exp_avg, de_nom, step_size, n_sma, n_sma_threshold, bc2_sq) ==
    IF ~group["rectify"]
    THEN [updated |-> TRUE,
          p |-> Sub(p, Mul(step_size, Div(exp_avg, Div(de_nom, bc2_sq))))]
    ELSE IF n_sma >= n_sma_threshold * Scale
    THEN [updated |-> TRUE, p |-> Sub(p, Mul(step_size, Div(exp_avg, de_nom)))]
    ELSE IF step_size > 0
    THEN [updated |-> TRUE, p |-> Sub(p, Mul(step_size, exp_avg))]
    ELSE [updated |-> FALSE, p |-> p]

\* the tensor the in-place update of lines 181-185 writes to: the name p was
\* rebound to the tensor apply_weight_decay returned, so the model's parameter
\* is written only when that is the parameter itself
WrittenParameter(fresh, old, new) == IF fresh THEN old ELSE new

\* lines 119-187 for parameter i of a group. acc holds the tensors, the
\* per-parameter state and the exception raised so far. grad_mode: autograd
\* is recording (step is not under torch.no_grad()), so an in-place update of
\* a leaf parameter that requires grad raises RuntimeError.
StepParameter(eng, group, i, acc, step_size, n_sma, bias_correction2_sq, grad_mode) ==
    LET t == acc.tensors[i]
    IN  IF acc.exc # NoExc \/ t.grad.kind = "none" THEN acc
        ELSE IF t.grad.kind = "sparse"
        THEN [acc EXCEPT !.exc = Exc("NoSparseGradientError", "adabelief_plus", "None")]
        ELSE
        LET st0 == InitialState(group, acc.state[i])
            wd == apply_weight_decay(t.data, t.grad.val, LrValue(group["lr"]),
                                     group["weight_decay"], group["weight_decouple"],
                                     group["fixed_decay"])
            grad == wd.grad
            an == get_adanorm_gradient(grad, group["adanorm"], st0,
                                       DictGet(group, "r", 0))
            beta1 == group["betas"][1]
            beta2 == group["betas"][2]
            exp_avg == Add(Mul(st0["exp_avg"], beta1), Mul(an[1], Scale - beta1))
            grad_residual == Sub(grad, exp_avg)
            exp_avg_var == Add(Add(Mul(st0["exp_avg_var"], beta2),
                                   Mul(Mul(grad_residual, grad_residual), Scale - beta2)),
                               group["eps"])
            ams == apply_ams_bound(group["ams_bound"], exp_avg_var, st0, group["eps"])
            st1 == DictUpdate(st0, [exp_avg |-> exp_avg, exp_avg_var |-> exp_avg_var])
            st2 == IF group["adanorm"] THEN DictUpdate(st1, [exp_grad_norm |-> an[2]]) ELSE st1
            st3 == IF group["ams_bound"] THEN DictUpdate(st2, [max_exp_avg_var |-> ams[2]])
                   ELSE st2
            upd == ParameterUpdate(group, wd.p, exp_avg, ams[1], step_size, n_sma,
                                   eng.n_sma_threshold, bias_correction2_sq)
            leaf_in_place == upd.updated /\ ~wd.fresh /\ grad_mode
        IN  [ tensors |-> [acc.tensors EXCEPT ![i] =
                  [data |-> IF leaf_in_place THEN t.data
                            ELSE WrittenParameter(wd.fresh, t.data, upd.p),
                   grad |-> Dense(grad)]],
              state |-> [acc.state EXCEPT ![i] = st3],
              exc |-> IF leaf_in_place
                      THEN Exc("RuntimeError", "in-place on a leaf that requires grad", "None")
                      ELSE NoExc ]

RECURSIVE StepParameters(_, _, _, _, _, _, _, _)
\* the loop of line 119 over the parameters ps of a group, in order
StepParameters(eng, group, ps, acc, step_size, n_sma, bias_correction2_sq, grad_mode) ==
    IF ps = <<>> THEN acc
    ELSE StepParameters(eng, group, Tail(ps),
             StepParameter(eng, group, Head(ps), acc, step_size, n_sma,
                           bias_correction2_sq, grad_mode),
             step_size, n_sma, bias_correction2_sq, grad_mode)

\* lines 95-117 and the parameter loop for group g: the group with its step
\* counter advanced, and the accumulator after its parameters
StepGroup(eng, g, acc, grad_mode) ==
    LET group0 == eng.param_groups[g]
        step == DictGet(group0, "step", 0) + 1
        group == DictUpdate(group0, [step |-> step])
        beta1 == group["betas"][1]
        beta2 == group["betas"][2]
        bias_correction1 == debias(beta1, step)
        bias_correction2_sq == Sqrt(debias(beta2, step))
        rect == get_rectify_step_size(group["rectify"], step, LrValue(group["lr"]), beta2,
                                      eng.n_sma_threshold, eng.degenerated_to_sgd)
        step_size == apply_adam_debias(group["adam_debias"], rect[1], bias_correction1)
    IN  [ group |-> group,
          acc |-> StepParameters(eng, group, group["params"], acc, step_size, rect[2],
                                 bias_correction2_sq, grad_mode) ]

RECURSIVE StepGroups(_, _, _, _)
\* the loop of line 90 over the groups from g on; a raised exception ends it
StepGroups(eng, g, acc, grad_mode) ==
    IF g > Len(eng.param_groups) \/ acc.exc # NoExc
    THEN [eng |-> [eng EXCEPT !.state = acc.state], tensors |-> acc.tensors, exc |-> acc.exc]
    ELSE LET r == StepGroup(eng, g, acc, grad_mode)
         IN  StepGroups([eng EXCEPT !.param_groups[g] = r.group], g + 1, r.acc, grad_mode)

\* adabelief_plus.step(closure): the loss returned or the exception raised,
\* and the engine and tensors it leaves
adabelief_plus_step(eng, tens, closure, grad_mode) ==
    LET r == StepGroups(eng, 1, [tensors |-> AfterClosure(tens, closure),
                                 state |-> eng.state, exc |-> NoExc],
                        grad_mode)
    IN  [ eng |-> r.eng, tensors |-> r.tensors, exc |-> r.exc,
          loss |-> IF r.exc = NoExc THEN ClosureLoss(closure) ELSE NoLoss ]


\* the group that holds parameter i
GroupOf(eng, i) ==
    CHOOSE g \in DOMAIN eng.param_groups :
        \E k \in DOMAIN eng.param_groups[g]["params"] : eng.param_groups[g]["params"][k] = i

\* a reset that writes the running maximum whether or not AMS-bound is on
ResetState_AlwaysMax(group, st) ==
    DictUpdate(DictUpdate(st, [exp_avg |-> 0, exp_avg_var |-> 0, max_exp_avg_var |-> 0]),
               IF group["adanorm"] THEN [exp_grad_norm |-> 0] ELSE Empty)

\* lines 197-205: the buffers reset writes into the state of one parameter
\* (self.state is a defaultdict: a parameter never stepped gets a state here)
ResetState(group, st) ==
    DictUpdate(DictUpdate(DictUpdate(st, [exp_avg |-> 0, exp_avg_var |-> 0]),
                          IF group["adanorm"] THEN [exp_grad_norm |-> 0] ELSE Empty),
               IF group["ams_bound"] THEN [max_exp_avg_var |-> 0] ELSE Empty)

\* a reset that zeroes the buffers and leaves the step counters alone
adabelief_plus_reset_KeepsStep(eng) ==
    [eng EXCEPT
        !.state = [i \in DOMAIN eng.state |->
                      ResetState(eng.param_groups[GroupOf(eng, i)], eng.state[i])]]

\* adabelief_plus.reset(): every group's step counter back to 0 and the
\* buffers of every parameter of every group back to zeros
adabelief_plus_reset(eng) ==
    [eng EXCEPT
        !.param_groups = [g \in DOMAIN eng.param_groups |->
                             DictUpdate(eng.param_groups[g], [step |-> 0])],
        !.state = [i \in DOMAIN eng.state |->
                      ResetState(eng.param_groups[GroupOf(eng, i)], eng.state[i])]]

\* adabelief_plus(params, lr=lr, **config) with params given as a list of
\* groups: torch.optim.Optimizer.__init__ makes one group per entry, each
\* with the defaults
adabelief_plus_with_groups(lr, config, groups) ==
    [adabelief_plus_init(lr, config) EXCEPT
        !.param_groups = [g \in DOMAIN groups |->
                             DictUpdate(adabelief_plus_defaults(lr, config),
                                        [params |-> groups[g]])]]

\* group["step"] as line 95 reads it: 0 until the first step stores it
StepCount(eng, g) == DictGet(eng.param_groups[g], "step", 0)

\* ------------------------------------------------------- the config CLI

\* the keys of a configuration whose values are booleans
BooleanKeys ==
    {"weight_decouple", "rectify", "ams_bound", "adanorm", "fixed_decay", "adam_debias"}

\* config/<name>_config.py: absent, or a Python source that binds
\* use_case_configs. json: its text was written with json.dumps (by
\* save_optimizer_config or by the tests' setUpClass), not by hand
NoConfigFile == [exists |-> FALSE, json |-> FALSE, configs |-> Empty]

ConfigFile(json, configs) == [exists |-> TRUE, json |-> json, configs |-> configs]

\* optimizers the CLI is asked about: "unknown" has no configuration file
CliOptimizers == {"adabelief", "test_optimizer", "unknown"}

\* the config directory: the shipped adabelief presets, and the file the
\* CLI's tests create, {"default": {"lr": 0.001, "beta": 0.9}}
ConfigFiles ==
    [ n \in CliOptimizers |->
        CASE n = "adabelief" -> ConfigFile(FALSE, adabelief_config)
          [] n = "test_optimizer" -> ConfigFile(TRUE, [default |-> [lr |-> 100, beta |-> 9000]])
          [] OTHER -> NoConfigFile ]

\* a json_string argument: what json.loads makes of it, or invalid
InvalidJson == [valid |-> FALSE, value |-> Empty]

Json(value) == [valid |-> TRUE, value |-> value]

\* json.dumps writes True and False as true and false, which are not names
\* Python knows: executing such a file raises NameError
HasJsonLiteral(configs) ==
    \E label \in DOMAIN configs : DOMAIN configs[label] \cap BooleanKeys # {}

\* what a load returns (found: a dict, not None) or raises
Loaded(configs) == [outcome |-> "return", found |-> TRUE, configs |-> configs, exc |-> NoExc]

NotLoaded == [outcome |-> "return", found |-> FALSE, configs |-> Empty, exc |-> NoExc]

LoadRaised(exc) == [outcome |-> "raise", found |-> FALSE, configs |-> Empty, exc |-> exc]

\* cli.load_optimizer_config(optimizer_name): executes the file as a module
load_optimizer_config(files, optimizer_name) ==
    LET file == files[optimizer_name]
    IN  IF ~file.exists THEN NotLoaded
        ELSE IF file.json /\ HasJsonLiteral(file.configs)
        THEN LoadRaised(Exc("NameError", "true", "None"))
        ELSE Loaded(file.configs)

\* cli.save_optimizer_config: the file is rewritten as
\* "use_case_configs = " followed by json.dumps(configs)
save_optimizer_config(files, optimizer_name, configs) ==
    [files EXCEPT ![optimizer_name] = ConfigFile(TRUE, configs)]

\* "if not configs": None, and an empty dict as well
NotConfigs(loaded) == ~loaded.found \/ loaded.configs = Empty

\* what a handler of the config command leaves: the files, and whether it
\* returned or raised
Handled(files) == [files |-> files, outcome |-> "return", exc |-> NoExc]

HandlerRaised(files, exc) == [files |-> files, outcome |-> "raise", exc |-> exc]

\* cli.set_optimizer_config(optimizer_name, json_string)
set_optimizer_config(files, optimizer_name, json_string) ==
    LET configs == load_optimizer_config(files, optimizer_name)
    IN  IF configs.outcome = "raise" THEN HandlerRaised(files, configs.exc)
        ELSE IF NotConfigs(configs) THEN Handled(files)
        ELSE IF ~json_string.valid THEN Handled(files)
        ELSE Handled(save_optimizer_config(files, optimizer_name,
                                           DictUpdate(configs.configs, json_string.value)))

\* cli.add_optimizer_config(optimizer_name, config_name, json_string)
add_optimizer_config(files, optimizer_name, config_name, json_string) ==
    LET configs == load_optimizer_config(files, optimizer_name)
    IN  IF configs.outcome = "raise" THEN HandlerRaised(files, configs.exc)
        ELSE IF NotConfigs(configs) THEN Handled(files)
        ELSE IF ~json_string.valid THEN Handled(files)
        ELSE IF config_name \in DOMAIN configs.configs THEN Handled(files)
        ELSE Handled(save_optimizer_config(files, optimizer_name,
                        DictUpdate(configs.configs,
                                   [l \in {config_name} |-> json_string.value])))

\* cli.rm_optimizer_config(optimizer_name, config_name)
rm_optimizer_config(files, optimizer_name, config_name) ==
    LET configs == load_optimizer_config(files, optimizer_name)
    IN  IF configs.outcome = "raise" THEN HandlerRaised(files, configs.exc)
        ELSE IF NotConfigs(configs) THEN Handled(files)
        ELSE IF config_name \notin DOMAIN configs.configs THEN Handled(files)
        ELSE Handled(save_optimizer_config(files, optimizer_name,
                                           DictPop(configs.configs, config_name)))

\* ------------------------------------------------------------- the wrapper

NoResolution == ResolveRaised(NoExc, <<>>, <<>>)

NoPreset == [kind |-> "None", value |-> Empty]

NoWrapper == [exists |-> FALSE, class |-> NoClass, is_plus |-> FALSE]

\* the record of a call: the arguments it got as far as using, what came
\* back, and what the call did on the way (the preset it looked up, the
\* resolution, the constructor call, the summary printed, the parameter
\* values a step started from, the loss the wrapped step returned)
NoLast ==
    [ op |-> "none", optimizer_name |-> "", config_name |-> "", lr |-> NoLr,
      kwargs |-> Empty, params |-> "", outcome |-> "none", exc |-> NoExc,
      preset |-> NoPreset, resolved |-> NoResolution, call |-> NoCall,
      constructed |-> FALSE, recorded |-> FALSE, summary |-> NoSummary, logs |-> <<>>,
      closure |-> NoClosure, grad_mode |-> FALSE, data_before |-> <<>>,
      inner |-> NoLoss, returned |-> NoLoss, previous |-> "",
      json_string |-> InvalidJson, ttl |-> TtlArg(0, ""), shown |-> <<>>, proc |-> 0,
      entries_before |-> <<>> ]

Raise(l, exc) == [l EXCEPT !.outcome = "raise", !.exc = exc]

\* a merge that leaves the preset's "lr" in place
MergedConfig_KeepsPresetLr(config, kwargs) == DictUpdate(config, kwargs)

\* lines 61-64: the overrides are written into config, then its "lr" entry is
\* dropped unless the overrides carry one
MergedConfig(config, kwargs) ==
    LET updated == DictUpdate(config, kwargs)
    IN  IF "lr" \in DOMAIN updated /\ "lr" \notin DOMAIN kwargs
        THEN DictPop(updated, "lr")
        ELSE updated

\* config is the dict object get_config returned, which is the store's own:
\* update and pop on it change the store's entry
StoreAfterMerge(ref, merged) ==
    [store EXCEPT ![ref.optimizer] =
        [store[ref.optimizer] EXCEPT ![ref.label] = merged]]

\* OptimizerWrapper.__init__, line by line: every variable it leaves and the
\* record of the call
WrapperInit(params, optimizer_name, config_name, lr, kwargs) ==
    LET l0 == [NoLast EXCEPT !.op = "construct", !.optimizer_name = optimizer_name,
                             !.config_name = config_name]
        keep == [store |-> store, history |-> history, wrapper |-> wrapper,
                 engine |-> engine]
        loaded == load_config(optimizer_name, config_name)
    IN  IF loaded.outcome = "raise"
        THEN keep @@ [last |-> Raise(l0, loaded.exc)]
        ELSE IF loaded.kind = "None"
        THEN \* None.update(kwargs)
             keep @@ [last |-> Raise(l0, Exc("AttributeError", "NoneType.update", "None"))]
        ELSE
        LET preset == store[loaded.ref.optimizer][loaded.ref.label]
            config == MergedConfig(preset, kwargs)
            store1 == StoreAfterMerge(loaded.ref, config)
            l1 == [l0 EXCEPT !.preset = [kind |-> "dict", value |-> preset],
                             !.kwargs = kwargs]
            resolved == get_optimizer_class(optimizer_name)
            l2 == [l1 EXCEPT !.resolved = resolved, !.logs = resolved.logs]
        IN  IF resolved.outcome = "raise"
            THEN [keep EXCEPT !.store = store1] @@ [last |-> Raise(l2, resolved.exc)]
            ELSE
            LET made == initialize_optimizer(resolved.class, params, lr, config)
                l3 == [l2 EXCEPT !.params = params, !.lr = lr, !.call = made.call,
                                 !.logs = l2.logs \o made.logs]
            IN  IF made.exc # NoExc
                THEN [keep EXCEPT !.store = store1] @@ [last |-> Raise(l3, made.exc)]
                ELSE
                LET l4 == [l3 EXCEPT !.constructed = TRUE,
                              !.summary = Summary(optimizer_name, config_name, lr, config,
                                                  resolved.is_plus, resolved.class),
                              !.logs = l3.logs \o <<Log("SUCCESS", "initialized")>>]
                    rec == record_history(optimizer_name, config_name,
                                          HistoryParams(resolved.class, lr, config))
                IN  IF rec.exc # NoExc
                    THEN [keep EXCEPT !.store = store1] @@ [last |-> Raise(l4, rec.exc)]
                    ELSE [ store |-> store1,
                           history |-> rec.history,
                           wrapper |-> [exists |-> TRUE, class |-> resolved.class,
                                        is_plus |-> resolved.is_plus],
                           engine |-> IF resolved.class = adabelief_plus_class
                                      THEN adabelief_plus_init(lr, config) ELSE NoEngine,
                           last |-> [l4 EXCEPT !.outcome = "return", !.recorded = TRUE] ]

\* ---------------------------------------------------------------- actions

\* values the model's parameters start from
InitialValues == {0, Scale}

\* the same gradient g on every parameter, except h on parameter k
GradsWith(g, k, h) == [i \in 1..NumParams |-> IF i = k THEN h ELSE g]

\* gradients a backward pass can leave: none, zeros or ones on every
\* parameter, and ones with one parameter's gradient absent or sparse
GradChoices ==
    {GradsWith(g, 1, g) : g \in {NoGrad, Dense(0), Dense(Scale)}}
    \cup {GradsWith(Dense(Scale), k, h) : k \in 1..NumParams, h \in {NoGrad, SparseGrad(Scale)}}

\* closures a caller passes to step: none, or one that runs the backward
\* pass and returns the loss 7.0
ClosureChoices == {NoClosure} \cup {Closure(7 * Scale, grads) : grads \in GradChoices}

Init ==
    /\ store = PresetStore
    /\ safe_optimizer \in SafeOptimizers
    /\ registry \in Registries
    /\ history = [n \in OptimizerNames |-> HistoryFile(FALSE, <<>>)]
    /\ wrapper = NoWrapper
    /\ engine = NoEngine
    /\ \E v \in InitialValues : tensors = [i \in 1..NumParams |-> [data |-> v, grad |-> NoGrad]]
    /\ last = NoLast
    /\ calls = 0
    /\ config_files = ConfigFiles
    /\ now = 0
    /\ procs = NoProcs

\* OptimizerWrapper(params, optimizer_name, config_name, lr=lr, **kwargs)
Construct(params, optimizer_name, config_name, lr, kwargs) ==
    /\ calls < MaxCalls
    /\ LET r == WrapperInit(params, optimizer_name, config_name, lr, kwargs)
       IN  /\ store' = r.store
           /\ history' = r.history
           /\ wrapper' = r.wrapper
           /\ engine' = r.engine
           /\ last' = r.last
    /\ calls' = calls + 1
    /\ UNCHANGED <<now, procs, config_files, safe_optimizer, registry, tensors>>

\* OptimizerWrapper.get_optimizer_class(optimizer_name), called on its own
GetOptimizerClass(optimizer_name) ==
    /\ calls < MaxCalls
    /\ LET resolved == get_optimizer_class(optimizer_name)
       IN  last' = [NoLast EXCEPT !.op = "get_optimizer_class",
                                  !.optimizer_name = optimizer_name,
                                  !.outcome = resolved.outcome,
                                  !.exc = resolved.exc,
                                  !.resolved = resolved,
                                  !.logs = resolved.logs]
    /\ calls' = calls + 1
    /\ UNCHANGED <<now, procs, config_files, store, safe_optimizer, registry, history, wrapper, engine, tensors>>

\* loss.backward(): autograd stores a gradient on each parameter
Backward(grads) ==
    /\ calls < MaxCalls
    /\ tensors' = [i \in 1..NumParams |-> [tensors[i] EXCEPT !.grad = grads[i]]]
    /\ last' = [NoLast EXCEPT !.op = "backward", !.outcome = "return"]
    /\ calls' = calls + 1
    /\ UNCHANGED <<now, procs, config_files, store, safe_optimizer, registry, history, wrapper, engine>>

\* the step of the optimizer the wrapper holds: the engine's for
\* adabelief_plus; a standard implementation's returns its closure's loss
InnerStep(closure, grad_mode) ==
    IF engine.alive
    THEN adabelief_plus_step(engine, tensors, closure, grad_mode)
    ELSE [eng |-> engine, tensors |-> AfterClosure(tensors, closure), exc |-> NoExc,
          loss |-> ClosureLoss(closure)]

\* what OptimizerWrapper.step returns, given what the wrapped step returned:
\* line 243 calls the wrapped step and drops its result
WrapperStepResult(inner_loss) == NoLoss

\* wrapper.step(closure)
Step(closure, grad_mode) ==
    /\ calls < MaxCalls
    /\ wrapper.exists
    /\ \E r \in {InnerStep(closure, grad_mode)} :
           /\ engine' = r.eng
           /\ tensors' = r.tensors
           /\ last' = [NoLast EXCEPT !.op = "step",
                                     !.closure = closure,
                                     !.grad_mode = grad_mode,
                                     !.data_before = [i \in 1..NumParams |-> tensors[i].data],
                                     !.outcome = IF r.exc = NoExc THEN "return" ELSE "raise",
                                     !.exc = r.exc,
                                     !.inner = r.loss,
                                     !.returned = IF r.exc = NoExc
                                                  THEN WrapperStepResult(r.loss)
                                                  ELSE NoLoss]
    /\ calls' = calls + 1
    /\ UNCHANGED <<now, procs, config_files, store, safe_optimizer, registry, history, wrapper>>

\* the history file of an optimizer is left unreadable (a truncated write,
\* a hand edit): json.load will fail on it
DamageHistoryFile(optimizer_name) ==
    /\ calls < MaxCalls
    /\ ~history[optimizer_name].corrupt
    /\ history' = [history EXCEPT ![optimizer_name].corrupt = TRUE]
    /\ last' = [NoLast EXCEPT !.op = "damage", !.optimizer_name = optimizer_name]
    /\ calls' = calls + 1
    /\ UNCHANGED <<now, procs, config_files, store, safe_optimizer, registry, wrapper, engine, tensors>>

Next ==
    \/ \E params \in ParamsArgs, optimizer_name \in OptimizerNames,
          config_name \in ConfigNames, lr \in LearningRates, kwargs \in OverrideKwargs :
          Construct(params, optimizer_name, config_name, lr, kwargs)
    \/ \E optimizer_name \in OptimizerNames : GetOptimizerClass(optimizer_name)
    \/ \E grads \in GradChoices : Backward(grads)
    \/ \E closure \in ClosureChoices, grad_mode \in BOOLEAN : Step(closure, grad_mode)
    \/ \E optimizer_name \in DOMAIN PresetStore : DamageHistoryFile(optimizer_name)

Spec == Init /\ [][Next]_vars

\* ------------------------------------------ the engine, over several calls

\* the configurations the engine is built with: the merged low_memory and
\* high_memory presets (plain, and with rectification, AMS-bound and adanorm),
\* each with decoupled and with coupled weight decay
\* keyword arguments given to the engine on top of a preset: the wrapper's
\* overrides, or AMS-bound with betas=(0.9, 0.5), a second moment that
\* forgets quickly
EngineKwargs == OverrideKwargs \cup {[betas |-> <<9 * 1000, 5 * 1000>>, ams_bound |-> TRUE]}

EngineConfigs ==
    { MergedConfig(adabelief_config[label], kwargs) :
        label \in {"low_memory", "high_memory"}, kwargs \in EngineKwargs }

\* params as one list of tensors, or as two groups
ParamGroupings ==
    { << [i \in 1..NumParams |-> i] >>,
      << <<1>>, [i \in 1..(NumParams - 1) |-> i + 1] >> }

\* an adabelief_plus instance built directly on the model's parameters
EngineInit ==
    /\ store = PresetStore
    /\ safe_optimizer = [adabelief_plus |-> "class"]
    /\ registry = CHOOSE r \in Registries : TRUE
    /\ history = [n \in OptimizerNames |-> HistoryFile(FALSE, <<>>)]
    /\ wrapper = NoWrapper
    /\ \E config \in EngineConfigs, groups \in ParamGroupings :
          engine = adabelief_plus_with_groups(1000, config, groups)
    /\ \E v \in InitialValues : tensors = [i \in 1..NumParams |-> [data |-> v, grad |-> NoGrad]]
    /\ last = NoLast
    /\ calls = 0
    /\ config_files = ConfigFiles
    /\ now = 0
    /\ procs = NoProcs

\* loss.backward() between two steps
EngineBackward(grads) ==
    /\ calls < MaxEngineCalls
    /\ tensors' = [i \in 1..NumParams |-> [tensors[i] EXCEPT !.grad = grads[i]]]
    /\ last' = [NoLast EXCEPT !.op = "backward", !.outcome = "return", !.previous = last.op]
    /\ calls' = calls + 1
    /\ UNCHANGED <<now, procs, config_files, store, safe_optimizer, registry, history, wrapper, engine>>

\* optimizer.step(closure) on the engine itself, which returns the loss
EngineStep(closure, grad_mode) ==
    /\ calls < MaxEngineCalls
    /\ \E r \in {adabelief_plus_step(engine, tensors, closure, grad_mode)} :
           /\ engine' = r.eng
           /\ tensors' = r.tensors
           /\ last' = [NoLast EXCEPT !.op = "step",
                                     !.closure = closure,
                                     !.grad_mode = grad_mode,
                                     !.data_before = [i \in 1..NumParams |-> tensors[i].data],
                                     !.outcome = IF r.exc = NoExc THEN "return" ELSE "raise",
                                     !.exc = r.exc,
                                     !.inner = r.loss,
                                     !.returned = r.loss,
                                     !.previous = last.op]
    /\ calls' = calls + 1
    /\ UNCHANGED <<now, procs, config_files, store, safe_optimizer, registry, history, wrapper>>

\* optimizer.reset()
EngineReset ==
    /\ calls < MaxEngineCalls
    /\ engine' = adabelief_plus_reset(engine)
    /\ last' = [NoLast EXCEPT !.op = "reset", !.outcome = "return", !.previous = last.op]
    /\ calls' = calls + 1
    /\ UNCHANGED <<now, procs, config_files, store, safe_optimizer, registry, history, wrapper, tensors>>

EngineNext ==
    \/ \E grads \in GradChoices : EngineBackward(grads)
    \/ \E closure \in ClosureChoices, grad_mode \in BOOLEAN : EngineStep(closure, grad_mode)
    \/ EngineReset

EngineSpec == EngineInit /\ [][EngineNext]_vars

\* ------------------------------------------------- the config command line

\* labels given to the config command
CliLabels == {"default", "low_memory", "new_config"}

\* JSON strings given to add: {"lr": 0.02}, {"rectify": true}, or no JSON
AddJsons == {Json([lr |-> 2000]), Json([rectify |-> TRUE]), InvalidJson}

\* JSON strings given to set: {"default": {"lr": 0.01}}, or no JSON
SetJsons == {Json([default |-> [lr |-> 1000]]), InvalidJson}

\* a process that only runs the config command
CliInit ==
    /\ store = PresetStore
    /\ safe_optimizer = [adabelief_plus |-> "class"]
    /\ registry = CHOOSE r \in Registries : TRUE
    /\ history = [n \in OptimizerNames |-> HistoryFile(FALSE, <<>>)]
    /\ wrapper = NoWrapper
    /\ engine = NoEngine
    /\ tensors = [i \in 1..NumParams |-> [data |-> 0, grad |-> NoGrad]]
    /\ last = NoLast
    /\ calls = 0
    /\ config_files = ConfigFiles
    /\ now = 0
    /\ procs = NoProcs

\* the record of a call of the config command
CliCall(op, optimizer_name, config_name, json_string, r) ==
    [NoLast EXCEPT !.op = op, !.optimizer_name = optimizer_name,
                   !.config_name = config_name, !.json_string = json_string,
                   !.outcome = r.outcome, !.exc = r.exc]

\* pyrodigy config <optimizer> set <json>
ConfigSet(optimizer_name, json_string) ==
    /\ calls < MaxCliCalls
    /\ \E r \in {set_optimizer_config(config_files, optimizer_name, json_string)} :
          /\ config_files' = r.files
          /\ last' = CliCall("config set", optimizer_name, "", json_string, r)
    /\ calls' = calls + 1
    /\ UNCHANGED <<now, procs, store, safe_optimizer, registry, history, wrapper, engine, tensors>>

\* pyrodigy config <optimizer> add <label> <json>
ConfigAdd(optimizer_name, config_name, json_string) ==
    /\ calls < MaxCliCalls
    /\ \E r \in {add_optimizer_config(config_files, optimizer_name, config_name,
                                       json_string)} :
          /\ config_files' = r.files
          /\ last' = CliCall("config add", optimizer_name, config_name, json_string, r)
    /\ calls' = calls + 1
    /\ UNCHANGED <<now, procs, store, safe_optimizer, registry, history, wrapper, engine, tensors>>

\* pyrodigy config <optimizer> rm <label>
ConfigRm(optimizer_name, config_name) ==
    /\ calls < MaxCliCalls
    /\ \E r \in {rm_optimizer_config(config_files, optimizer_name, config_name)} :
          /\ config_files' = r.files
          /\ last' = CliCall("config rm", optimizer_name, config_name, InvalidJson, r)
    /\ calls' = calls + 1
    /\ UNCHANGED <<now, procs, store, safe_optimizer, registry, history, wrapper, engine, tensors>>

CliNext ==
    \/ \E optimizer_name \in CliOptimizers, json_string \in SetJsons :
          ConfigSet(optimizer_name, json_string)
    \/ \E optimizer_name \in CliOptimizers, config_name \in CliLabels, json_string \in AddJsons :
          ConfigAdd(optimizer_name, config_name, json_string)
    \/ \E optimizer_name \in CliOptimizers, config_name \in CliLabels :
          ConfigRm(optimizer_name, config_name)

CliSpec == CliInit /\ [][CliNext]_vars

\* ------------------------------------------- the history, over several calls

\* the optimizer whose history the calls are about
HistoryOptimizers == {"adabelief"}

\* preset labels the recording constructions were given
HistoryLabels == {"low_memory", "high_memory"}

\* --TTL arguments: 0d, 1d, and 1h, which int() rejects
TtlArgs == {TtlArg(0, "d"), TtlArg(1, "d"), TtlArg(1, "h")}

\* the history a process starts with: none, or one entry that a construction
\* recorded the day before
StartHistories ==
    { <<>>,
      <<[timestamp |-> IsoFormat(0), optimizer_name |-> "adabelief",
         config_name |-> "low_memory", params |-> Empty]>> }

HistoryInit ==
    /\ store = PresetStore
    /\ safe_optimizer = [adabelief_plus |-> "class"]
    /\ registry = CHOOSE r \in Registries : TRUE
    /\ \E entries \in StartHistories :
          history = [n \in OptimizerNames |->
                        HistoryFile(FALSE, IF n = "adabelief" THEN entries ELSE <<>>)]
    /\ wrapper = NoWrapper
    /\ engine = NoEngine
    /\ tensors = [i \in 1..NumParams |-> [data |-> 0, grad |-> NoGrad]]
    /\ last = NoLast
    /\ calls = 0
    /\ config_files = ConfigFiles
    /\ now = 1
    /\ procs = NoProcs

\* a day passes
Tick ==
    /\ now < MaxDays
    /\ now' = now + 1
    /\ UNCHANGED <<store, safe_optimizer, registry, history, wrapper, engine, tensors, last,
                   calls, config_files, procs>>

\* process p enters record_history and runs load_history (line 279)
RecordLoad(p, optimizer_name, config_name) ==
    /\ calls < MaxHistoryCalls
    /\ procs[p].pc = "idle"
    /\ \E loaded \in {load_history(optimizer_name)} :
          /\ procs' = [procs EXCEPT ![p] =
                          IF loaded.exc # NoExc THEN Idle
                          ELSE LoadedProc(optimizer_name, config_name, loaded.entries)]
          /\ last' = [NoLast EXCEPT !.op = "record load", !.proc = p,
                                    !.optimizer_name = optimizer_name,
                                    !.config_name = config_name,
                                    !.outcome = IF loaded.exc # NoExc THEN "raise" ELSE "return",
                                    !.exc = loaded.exc]
    /\ calls' = calls + 1
    /\ UNCHANGED <<store, safe_optimizer, registry, history, wrapper, engine, tensors,
                   config_files, now>>

\* process p makes its entry, appends it to the list it loaded and runs
\* save_history (lines 290-299)
RecordSave(p) ==
    /\ calls < MaxHistoryCalls
    /\ procs[p].pc = "loaded"
    /\ history' = save_history(history, procs[p].optimizer_name,
                               Append(procs[p].history_data,
                                      HistoryEntry(procs[p].optimizer_name,
                                                   procs[p].config_name, Empty)))
    /\ procs' = [procs EXCEPT ![p] = Idle]
    /\ last' = [NoLast EXCEPT !.op = "record save", !.proc = p,
                              !.optimizer_name = procs[p].optimizer_name,
                              !.config_name = procs[p].config_name,
                              !.outcome = "return"]
    /\ calls' = calls + 1
    /\ UNCHANGED <<store, safe_optimizer, registry, wrapper, engine, tensors, config_files, now>>

\* apply_ttl(optimizer_name, timedelta(days=ttl)), called as the tests call it
ApplyTtl(optimizer_name, ttl) ==
    /\ calls < MaxHistoryCalls
    /\ \E r \in {apply_ttl(history, optimizer_name, ttl)} :
          /\ history' = r.history
          /\ last' = [NoLast EXCEPT !.op = "apply_ttl", !.optimizer_name = optimizer_name,
                                    !.ttl = TtlArg(ttl, "d"),
                                    !.entries_before = history[optimizer_name].entries,
                                    !.outcome = IF r.exc # NoExc THEN "raise" ELSE "return",
                                    !.exc = r.exc]
    /\ calls' = calls + 1
    /\ UNCHANGED <<store, safe_optimizer, registry, wrapper, engine, tensors, config_files,
                   now, procs>>

\* pyrodigy history <optimizer> show|clear --TTL <ttl>
HistoryCommand(optimizer_name, action, TTL) ==
    /\ calls < MaxHistoryCalls
    /\ \E r \in {main_history(history, optimizer_name, action, TTL)} :
          /\ history' = r.history
          /\ last' = [NoLast EXCEPT !.op = "history " \o action,
                                    !.optimizer_name = optimizer_name, !.ttl = TTL,
                                    !.shown = r.shown,
                                    !.entries_before = history[optimizer_name].entries,
                                    !.outcome = IF r.exc # NoExc THEN "raise" ELSE "return",
                                    !.exc = r.exc]
    /\ calls' = calls + 1
    /\ UNCHANGED <<store, safe_optimizer, registry, wrapper, engine, tensors, config_files,
                   now, procs>>

HistoryNext ==
    \/ Tick
    \/ \E p \in 1..NumProcs, optimizer_name \in HistoryOptimizers,
          config_name \in HistoryLabels : RecordLoad(p, optimizer_name, config_name)
    \/ \E p \in 1..NumProcs : RecordSave(p)
    \/ \E optimizer_name \in HistoryOptimizers, TTL \in TtlArgs :
          ApplyTtl(optimizer_name, TTL.days)
    \/ \E optimizer_name \in HistoryOptimizers, action \in {"show", "clear"}, TTL \in TtlArgs :
          HistoryCommand(optimizer_name, action, TTL)

HistorySpec == HistoryInit /\ [][HistoryNext]_vars

\* ------------------------------------------------------------------ claims

\* the custom module kind the last call's identifier resolves to
LastKind == ImportKind(Lower(last.optimizer_name) \o "_plus")

\* the last call ran get_optimizer_class (on its own or inside a construction)
LastResolved == last.resolved # NoResolution

\* the last call was a construction that called the implementation's constructor
LastCalled == last.op = "construct" /\ last.call # NoCall

\* C1: constructing wrappers never changes the preset store: every lookup
\* still returns the mapping defined at process start.
C1_PresetStoreNeverMutated == store = PresetStore

\* C2: when the preset has an "lr" entry and the implementation's constructor
\* accepts lr, the constructor is called with the explicit lr and a merged
\* configuration without an "lr" entry.
C2_ExplicitLrWins ==
    (LastCalled /\ "lr" \in DOMAIN last.preset.value
        /\ "lr" \in last.resolved.class.init_params)
    => (last.call.lr = last.lr /\ "lr" \notin DOMAIN last.call.config)

C2_Witness ==
    /\ LastCalled
    /\ last.outcome = "return"
    /\ "lr" \in DOMAIN last.preset.value
    /\ last.preset.value["lr"] # last.lr
    /\ "lr" \in last.resolved.class.init_params
    /\ last.call.lr = 1000

\* C3: when a valid enhanced class exists under lowercase(identifier) + "_plus",
\* get_optimizer_class returns it with is_plus = TRUE and never calls the
\* standard registry, also when the registry has an entry for the identifier.
C3_EnhancedTakesPriority ==
    (LastResolved /\ LastKind = "class")
    => /\ last.resolved.outcome = "return"
       /\ last.resolved.class = EnhancedClass(Lower(last.optimizer_name) \o "_plus")
       /\ last.resolved.is_plus
       /\ last.resolved.consulted = <<>>

C3_Witness ==
    /\ LastResolved
    /\ LastKind = "class"
    /\ last.optimizer_name = "AdaBelief"
    /\ registry[last.optimizer_name].found
    /\ last.resolved.is_plus

\* C4: with no enhanced override (module missing, or module without the
\* symbol) and a registry entry, get_optimizer_class returns the registry's
\* class for the unmodified identifier with is_plus = FALSE.
C4_FallbackToRegistry ==
    (LastResolved /\ LastKind \in {"missing", "nosymbol"}
        /\ registry[last.optimizer_name].found)
    => /\ last.resolved.outcome = "return"
       /\ last.resolved.class = registry[last.optimizer_name].class
       /\ ~last.resolved.is_plus
       /\ last.resolved.consulted = <<last.optimizer_name>>

C4_Witness ==
    /\ LastResolved
    /\ LastKind = "nosymbol"
    /\ last.optimizer_name = "AdaBelief"
    /\ last.resolved.class.name = "AdaBelief"
    /\ ~last.resolved.is_plus

\* C5: a construction whose preset label is absent from an existing store
\* fails with a ValueError naming the missing configuration, and constructs
\* no optimizer.
C5_PresetNotFound ==
    (last.op = "construct" /\ last.optimizer_name \in DOMAIN store
        /\ last.config_name \notin DOMAIN store[last.optimizer_name])
    => /\ last.outcome = "raise"
       /\ last.exc.type = "ValueError"
       /\ last.exc.about = last.config_name
       /\ ~last.constructed

\* C6: the wrapper's step returns what the wrapped step returned: the
\* closure's loss when a closure is given, None otherwise.
C6_StepReturnsLoss ==
    (last.op = "step" /\ last.outcome = "return")
    => /\ last.returned = last.inner
       /\ last.returned = ClosureLoss(last.closure)

\* C7: after one step of the enhanced engine built through the wrapper from a
\* preset without rectification, AMS-bound and adanorm, with lr 0.01, on
\* parameters starting at 0.0 that all have gradient 1.0, every parameter's
\* value is strictly negative and all have the same magnitude.
C7_OneStepMovesParameters ==
    (/\ last.op = "step" /\ last.outcome = "return"
     /\ wrapper.is_plus /\ engine.alive
     /\ engine.param_groups[1]["step"] = 1
     /\ ~engine.param_groups[1]["rectify"]
     /\ ~engine.param_groups[1]["ams_bound"]
     /\ ~engine.param_groups[1]["adanorm"]
     /\ engine.param_groups[1]["lr"] = 1000
     /\ \A i \in 1..NumParams : last.data_before[i] = 0 /\ tensors[i].grad = Dense(Scale))
    => /\ \A i \in 1..NumParams : Greater(0, tensors[i].data)
       /\ \A i, j \in 1..NumParams : Abs(tensors[i].data) = Abs(tensors[j].data)

\* C8: a failure of the history collaborator never makes a construction fail:
\* once the implementation is constructed, the wrapper is returned.
C8_HistoryFailureSuppressed ==
    (last.op = "construct" /\ last.constructed)
    => (last.outcome = "return" /\ wrapper.exists)

\* C9: whatever the implementation's constructor raises is re-raised as a
\* ValueError (OptimizerInitError) with the original exception as its cause.
C9_ConstructorFailuresWrapped ==
    (LastCalled /\ ConstructorRaises(last.resolved.class, last.call) # "None")
    => /\ last.outcome = "raise"
       /\ last.exc.type = "ValueError"
       /\ last.exc.cause = ConstructorRaises(last.resolved.class, last.call)

\* C10: when the enhanced symbol exists but is no class, get_optimizer_class
\* fails with a TypeError (InvalidOptimizerDefinition) and never calls the
\* standard registry.
C10_InvalidDefinitionNoFallback ==
    (LastResolved /\ LastKind = "notclass")
    => /\ last.resolved.outcome = "raise"
       /\ last.resolved.exc.type = "TypeError"
       /\ last.resolved.consulted = <<>>
       /\ last.outcome = "raise"
       /\ last.exc = last.resolved.exc

C10_Witness ==
    /\ LastResolved
    /\ LastKind = "notclass"
    /\ registry[last.optimizer_name].found
    /\ last.exc.type = "TypeError"

\* C11: for an identifier with neither an enhanced implementation nor a
\* registry entry, get_optimizer_class fails with a ValueError
\* (OptimizerNotFound) that names the identifier and has the registry's own
\* error as its cause.
C11_OptimizerNotFound ==
    (LastResolved /\ LastKind \in {"missing", "nosymbol"}
        /\ ~registry[last.optimizer_name].found)
    => /\ last.resolved.outcome = "raise"
       /\ last.resolved.exc.type = "ValueError"
       /\ last.resolved.exc.about = last.optimizer_name
       /\ last.resolved.exc.cause = registry[last.optimizer_name].error

\* the last step of the behaviour was a wrapper construction
Constructing == last'.op = "construct" /\ calls' = calls + 1

\* the entry a construction records: the optimizer id, the preset label, and
\* as parameters the merged configuration the constructor got, with the
\* explicit lr when the constructor got one
IsUsageEvent(entry, l) ==
    /\ entry.optimizer_name = l.optimizer_name
    /\ entry.config_name = l.config_name
    /\ DictPop(entry.params, "lr") = l.call.config
    /\ l.call.lr # NoLr => ("lr" \in DOMAIN entry.params /\ entry.params["lr"] = l.call.lr)

\* C12: a construction that returns has appended exactly one entry to the
\* history of its optimizer, carrying the optimizer id, the preset label and
\* the final parameters, and has left the other histories alone; a
\* construction that fails in configuration resolution, implementation
\* resolution or implementation construction leaves every history as it was.
C12_HistoryRecordedOnce ==
    [][Constructing =>
        /\ last'.outcome = "return" =>
              /\ Len(history'[last'.optimizer_name].entries)
                   = Len(history[last'.optimizer_name].entries) + 1
              /\ SubSeq(history'[last'.optimizer_name].entries, 1,
                        Len(history[last'.optimizer_name].entries))
                   = history[last'.optimizer_name].entries
              /\ IsUsageEvent(history'[last'.optimizer_name].entries[
                                  Len(history'[last'.optimizer_name].entries)], last')
              /\ \A n \in DOMAIN history \ {last'.optimizer_name} : history'[n] = history[n]
        /\ (last'.outcome = "raise" /\ ~last'.constructed) => history' = history]_vars

C12_Witness ==
    /\ last.op = "construct"
    /\ last.outcome = "return"
    /\ last.recorded
    /\ Len(history[last.optimizer_name].entries) = 2

\* C13: a successful construction emits to the logger a summary with the
\* banner, the optimizer id, the preset label, and the explicit learning rate
\* when the implementation accepts one.
C13_SummaryLogged ==
    (last.op = "construct" /\ last.outcome = "return")
    => /\ last.summary.stream = "logger"
       /\ last.summary.banner
       /\ last.summary.optimizer_name = last.optimizer_name
       /\ last.summary.config_name = last.config_name
       /\ "lr" \in last.resolved.class.init_params => last.summary.learning_rate = last.lr

\* the last step of the behaviour was a call of the engine's step / reset
Stepping == last'.op = "step" /\ calls' = calls + 1

Resetting == last'.op = "reset" /\ calls' = calls + 1

Groups == DOMAIN engine.param_groups

\* C14: a group's step counter starts at 0, goes up by exactly 1 on every
\* call of step, never goes down, and goes back to 0 only by reset (so that N
\* steps in a row leave it at N).
C14_StepCounter ==
    [][/\ calls = 0 => \A g \in Groups : StepCount(engine, g) = 0
       /\ Stepping => \A g \in Groups : StepCount(engine', g) = StepCount(engine, g) + 1
       /\ Resetting => \A g \in Groups : StepCount(engine', g) = 0
       /\ ~Resetting => \A g \in Groups : StepCount(engine', g) >= StepCount(engine, g)]_vars

\* the step just made came right after a reset and saw a zero gradient on
\* every parameter
ResetThenZeroStep ==
    /\ Stepping
    /\ last.op = "reset"
    /\ \A i \in 1..NumParams : AfterClosure(tensors, last'.closure)[i].grad = Dense(0)

\* the buffers of parameter i that are not zero after the step
NonZeroBuffers(i) == {k \in DOMAIN engine'.state[i] : engine'.state[i][k] # 0}

\* C15 as stated: reset followed at once by a step with zero gradients leaves
\* every state buffer of every parameter at zero, and every step counter at 1.
C15_ResetThenZeroStepKeepsZeros ==
    [][ResetThenZeroStep =>
         /\ \A i \in 1..NumParams : NonZeroBuffers(i) = {}
         /\ \A g \in Groups : StepCount(engine', g) = 1]_vars

\* C15 as amended: with decoupled weight decay, reset followed at once by a
\* step with zero gradients leaves the first moment and the gradient-norm
\* average at zero, the second moment at eps (which every step adds into it)
\* and the running maximum at eps as well, and every step counter at 1.
C15_ResetThenZeroStepLeavesEps ==
    [][(ResetThenZeroStep /\ \A g \in Groups : engine.param_groups[g]["weight_decouple"]) =>
         /\ last'.outcome = "return"
         /\ \A i \in 1..NumParams :
              LET st == engine'.state[i]
                  eps == engine.param_groups[GroupOf(engine, i)]["eps"]
              IN  /\ st["exp_avg"] = 0
                  /\ st["exp_avg_var"] = eps
                  /\ "exp_grad_norm" \in DOMAIN st => st["exp_grad_norm"] = 0
                  /\ "max_exp_avg_var" \in DOMAIN st => st["max_exp_avg_var"] = eps
         /\ \A g \in Groups : StepCount(engine', g) = 1]_vars

C15_Witness ==
    /\ last.op = "step" /\ last.previous = "reset" /\ last.outcome = "return"
    /\ calls = 3
    /\ last.closure.present /\ \A i \in 1..NumParams : last.closure.grads[i] = Dense(0)
    /\ \A g \in Groups : engine.param_groups[g]["weight_decouple"] /\ StepCount(engine, g) = 1
    /\ \A i \in 1..NumParams : engine.state[i]["exp_avg"] = 0 /\ engine.state[i]["exp_avg_var"] = 1
    /\ "max_exp_avg_var" \in DOMAIN engine.state[1]

\* C16: a step that raises on a sparse gradient has changed nothing: every
\* step counter, parameter value, stored gradient and state buffer is as it
\* was when the parameter loop began.
C16_SparseFailsBeforeMutation ==
    [][(Stepping /\ last'.exc.type = "NoSparseGradientError") =>
         /\ engine' = engine
         /\ tensors' = AfterClosure(tensors, last'.closure)]_vars

\* C17: a step in which some parameter of some group has a sparse gradient
\* fails with NoSparseGradientError, whatever precedes that parameter.
C17_SparseRejected ==
    [][(Stepping /\ \E i \in 1..NumParams :
                       AfterClosure(tensors, last'.closure)[i].grad.kind = "sparse") =>
         /\ last'.outcome = "raise"
         /\ last'.exc.type = "NoSparseGradientError"]_vars

\* the buffers the features of parameter i's group call for
CompleteKeys(i) ==
    {"exp_avg", "exp_avg_var"}
    \cup (IF engine.param_groups[GroupOf(engine, i)]["adanorm"] THEN {"exp_grad_norm"} ELSE {})
    \cup (IF engine.param_groups[GroupOf(engine, i)]["ams_bound"] THEN {"max_exp_avg_var"} ELSE {})

\* C18: every parameter has either no state at all or a complete one: both
\* moments, the gradient-norm average exactly when adanorm is on for its
\* group, the running maximum exactly when AMS-bound is on.
C18_StateAllOrNothing ==
    \A i \in 1..NumParams :
        engine.state[i] = Empty \/ DOMAIN engine.state[i] = CompleteKeys(i)

C18_Witness ==
    /\ last.op = "step" /\ last.outcome = "raise"
    /\ engine.state[1] # Empty /\ engine.state[NumParams] = Empty
    /\ DOMAIN engine.state[1] = {"exp_avg", "exp_avg_var", "exp_grad_norm", "max_exp_avg_var"}

\* the running maximum of parameter i before a step (zero when the
\* parameter has no state yet)
RunningMax(st) == DictGet(st, "max_exp_avg_var", 0)

Adding ==
    /\ last'.op = "config add" /\ calls' = calls + 1
    /\ last'.json_string.valid
    /\ config_files[last'.optimizer_name].exists

\* C20: after add_optimizer_config with valid JSON for a label that the
\* optimizer's store does not hold, load_optimizer_config returns a store
\* that holds the label, whatever set / add / rm calls came before; and add
\* leaves every label the store already holds as it was.
C20_AddedConfigIsLoaded ==
    [][Adding =>
         LET before == config_files[last'.optimizer_name].configs
             loaded == load_optimizer_config(config_files', last'.optimizer_name)
         IN  /\ last'.config_name \notin DOMAIN before =>
                  /\ loaded.outcome = "return" /\ loaded.found
                  /\ last'.config_name \in DOMAIN loaded.configs
             /\ \A label \in DOMAIN before :
                  /\ label \in DOMAIN config_files'[last'.optimizer_name].configs
                  /\ config_files'[last'.optimizer_name].configs[label] = before[label]]_vars

\* C22: when the identifier has no enhanced override (no module, or a module
\* without the symbol) and the standard registry holds it, the resolution
\* emits no log record of level ERROR.
C22_FallbackWithoutErrorLog ==
    (LastResolved /\ LastKind \in {"missing", "nosymbol"} /\ last.resolved.outcome = "return")
    => \A k \in DOMAIN last.resolved.logs : last.resolved.logs[k].level # "ERROR"

\* C23: after any sequence of step and reset calls, aborted steps included,
\* all parameter groups of the engine hold the same step counter.
C23_GroupsShareStepCounter ==
    \A g \in Groups, h \in Groups : StepCount(engine, g) = StepCount(engine, h)

\* the entry the last construction recorded
LastEntry ==
    history[last.optimizer_name].entries[Len(history[last.optimizer_name].entries)]

\* C24: after a construction, the recorded usage event has an "lr" entry, and
\* the summary shows a learning rate, exactly when the explicit learning rate
\* was passed to the implementation's constructor.
C24_LrAwarenessAgrees ==
    (last.op = "construct" /\ last.outcome = "return")
    => /\ ("lr" \in DOMAIN LastEntry.params) <=> (last.call.lr # NoLr)
       /\ (last.summary.learning_rate # NoLr) <=> (last.call.lr # NoLr)

\* C25: a step leaves the stored gradient of every parameter as the backward
\* pass (or the closure) left it, whatever the weight decay settings.
C25_StepKeepsGradients ==
    [][Stepping =>
         \A i \in 1..NumParams :
            tensors'[i].grad = AfterClosure(tensors, last'.closure)[i].grad]_vars

\* the step just made was a call of apply_ttl on a readable history
ApplyingTtl ==
    /\ last'.op = "apply_ttl" /\ calls' = calls + 1
    /\ ~history[last'.optimizer_name].corrupt

\* C21: apply_ttl(optimizer, ttl) leaves in the stored history exactly the
\* entries whose timestamp is at or after now - ttl, in their original order
\* and unaltered, and leaves the other optimizers' histories alone.
C21_TtlKeepsRecentEntries ==
    [][ApplyingTtl =>
         /\ last'.outcome = "return"
         /\ history'[last'.optimizer_name].entries
              = SelectSeq(history[last'.optimizer_name].entries,
                          LAMBDA e : FromIsoFormat(e.timestamp) >= now - last'.ttl.days)
         /\ \A n \in DOMAIN history \ {last'.optimizer_name} : history'[n] = history[n]]_vars

C21_Witness ==
    /\ last.op = "apply_ttl" /\ last.outcome = "return"
    /\ Len(last.entries_before) = 2
    /\ Len(history[last.optimizer_name].entries) = 1
    /\ FromIsoFormat(history[last.optimizer_name].entries[1].timestamp) = now - last.ttl.days

\* the step just made was the command "history <optimizer> show"
ShowingHistory == last'.op = "history show" /\ calls' = calls + 1

\* C26: the command "history <optimizer> show --TTL <n>d" leaves the stored
\* history as it was, entries older than the TTL included.
C26_ShowIsReadOnly ==
    [][ShowingHistory => history' = history]_vars

\* C26, amended: the command "history <optimizer> show --TTL <n>d" is not
\* read-only. When it completes, the stored history of the optimizer holds
\* the entries whose timestamp is at or after now - n days, unaltered and in
\* their original order, and the older ones are removed from it; the other
\* optimizers' histories are as they were. When it raises, nothing is written.
C26_ShowPrunesOlderEntries ==
    [][ShowingHistory =>
         /\ last'.outcome = "return" =>
               history'[last'.optimizer_name].entries
                 = SelectSeq(history[last'.optimizer_name].entries,
                             LAMBDA e : FromIsoFormat(e.timestamp) >= now - last'.ttl.days)
         /\ last'.outcome = "raise" => history' = history
         /\ \A n \in DOMAIN history \ {last'.optimizer_name} : history'[n] = history[n]]_vars

C26_Witness ==
    /\ last.op = "history show" /\ last.outcome = "return"
    /\ Len(last.entries_before) = 2
    /\ Len(history[last.optimizer_name].entries) = 1
    /\ last.shown = history[last.optimizer_name].entries

\* C27: a record_history that completes leaves in the stored history every
\* entry that was stored when it saved, in place, followed by its own entry,
\* whatever other record_history ran between its load and its save.
C27_RecordKeepsStoredEntries ==
    [][(last'.op = "record save" /\ calls' = calls + 1) =>
         LET stored == history[last'.optimizer_name].entries
             saved == history'[last'.optimizer_name].entries
         IN  /\ Len(saved) >= Len(stored) + 1
             /\ SubSeq(saved, 1, Len(stored)) = stored
             /\ saved[Len(saved)].config_name = last'.config_name]_vars

====
